---- MODULE Spec2Model ----
(***************************************************************************)
(* Model of single_dock.py: argument validation, the SLURM (queue-backed)  *)
(* deployment loop with its sbatch script generator, and the serial        *)
(* PyJobDistributor loop.                                                  *)
(*                                                                         *)
(* Strings that the script slices (the input path) are sequences of        *)
(* one-character strings, so that input_file[-4:] and input_file[:-4] are  *)
(* computed as Python computes them.                                       *)
(***************************************************************************)
EXTENDS Integers, Sequences, FiniteSets, TLC

VARIABLES
    args,                   \* argparse namespace: input_file, n_decoys, n_steps, slurm, pre_filter
    pc,                     \* position of the single thread of control
    exit_msg,               \* message handed to exit(), "" while running
    pre_filter,             \* value returned by load_pre_filter in __main__
    decoy_index,            \* loop variable of deploy_decoys_on_slurm
    scripts,                \* sequence of "<output_name>.sh" files written, in order
    filter_files,           \* sequence of "<output_name>_pre_filter.json" files written
    n_jobs_on_slurm_queue,  \* value returned by the last poll
    queue,                  \* number of the user's jobs outstanding in SLURM
    submitted,              \* sequence of output names handed to sbatch, in order
    n_polls,                \* calls of get_number_of_jobs_in_slurm_queue
    n_over,                 \* polls that returned a count above the ceiling
    n_nonzero,              \* polls that returned a count other than 0
    n_recover,              \* calls of verify_launch_failed_requeued_held
    last,                   \* last step taken by the SLURM loop
    job_man,                \* the PyJobDistributor of the serial loop
    dockers,                \* PASSO instances constructed, by the output name each was built for
    trials,                 \* single_dock_decoy executions: trial id and the docker used
    outputs                 \* trial ids handed to job_man.output_decoy

vars == <<args, pc, exit_msg, pre_filter, decoy_index, scripts, filter_files,
          n_jobs_on_slurm_queue, queue, submitted, n_polls, n_over, n_nonzero,
          n_recover, last, job_man, dockers, trials, outputs>>

slurm_vars == <<decoy_index, scripts, filter_files, n_jobs_on_slurm_queue,
                submitted, n_polls, n_over, n_nonzero, n_recover, last>>

serial_vars == <<job_man, dockers, trials, outputs>>

----------------------------------------------------------------------------
(* Bounds of the model *)

MaxDecoys == 3
MaxPathLen == 5
MaxOverPolls == 2
QueueSlack == 2

----------------------------------------------------------------------------
(* class DEFAULT *)

max_slurm_jobs == 499
DEFAULT_pre_filter == "auto"

----------------------------------------------------------------------------
(* Inputs *)

Chars == {".", "p", "d", "b"}

RECURSIVE SeqsUpTo(_)
SeqsUpTo(n) ==
    IF n = 0 THEN {<<>>}
    ELSE LET shorter == SeqsUpTo(n - 1)
         IN  shorter \cup {Append(s, c) : s \in {t \in shorter : Len(t) = n - 1}, c \in Chars}

AllPaths == SeqsUpTo(MaxPathLen)

\* "c.pdb", ".pdb", "c.txt", "pdb"
InputFiles == { <<"c", ".", "p", "d", "b">>, <<".", "p", "d", "b">>,
                <<"c", ".", "t", "x", "t">>, <<"p", "d", "b">> }

DecoyValues == -1 .. MaxDecoys
StepValues == {-1, 0, 10}
PreFilterArgs == {DEFAULT_pre_filter, "filter.json"}
QueueLevels == {0} \cup ((max_slurm_jobs - QueueSlack) .. (max_slurm_jobs + QueueSlack))

----------------------------------------------------------------------------
(* Python slices of the input path *)

\* s[-4:]
Last4(s) == IF Len(s) <= 4 THEN s ELSE SubSeq(s, Len(s) - 3, Len(s))

\* s[:-4]
DropLast4(s) == IF Len(s) <= 4 THEN <<>> ELSE SubSeq(s, 1, Len(s) - 4)

PDB == <<".", "p", "d", "b">>

\* validate_arguments with the decoy check written "<= 0"
validate_arguments_positive(a) ==
    IF ~(Last4(a.input_file) = PDB)
    THEN "ERROR: Input file should be in PDB format"
    ELSE IF a.n_decoys <= 0
    THEN "ERROR: Number of decoys must be a non-negative value"
    ELSE IF a.n_steps < 0
    THEN "ERROR: Number of PASSO steps must be a non-negative value"
    ELSE ""

(* validate_arguments: the message of the first failing check, "" if none *)
validate_arguments(a) ==
    IF ~(Last4(a.input_file) = PDB)
    THEN "ERROR: Input file should be in PDB format"
    ELSE IF a.n_decoys < 0
    THEN "ERROR: Number of decoys must be a non-negative value"
    ELSE IF a.n_steps < 0
    THEN "ERROR: Number of PASSO steps must be a non-negative value"
    ELSE ""

(* load_pre_filter: a PreFilter object, the default one when no JSON file *)
(* is given; never the string "auto".                                     *)
load_pre_filter(f) ==
    IF f = DEFAULT_pre_filter THEN "PreFilter(default)" ELSE "PreFilter(json)"

\* output names numbered from 1
OutputName_one_based(prefix, index) == [prefix |-> prefix, index |-> index + 1]

(* "%s_%d" % (output_prefix, index) *)
OutputName(prefix, index) == [prefix |-> prefix, index |-> index]

(* dump_sbatch_script: the script written, and the filter file if any *)
ScriptOf(output_name, input_file, n_steps, pf) ==
    [ name    |-> output_name,
      job     |-> output_name,
      input   |-> input_file,
      ns      |-> n_steps,
      out     |-> output_name,
      pf_ref  |-> IF pf /= "auto" THEN <<output_name>> ELSE <<>> ]

FilterFilesOf(output_name, pf) ==
    IF pf /= "auto" THEN <<[name |-> output_name, content |-> pf]>> ELSE <<>>

----------------------------------------------------------------------------
(* Initial states *)

InitRest ==
    /\ pc = "main"
    /\ exit_msg = ""
    /\ pre_filter = "unset"
    /\ decoy_index = 0
    /\ scripts = <<>>
    /\ filter_files = <<>>
    /\ n_jobs_on_slurm_queue = 0
    /\ queue \in QueueLevels
    /\ submitted = <<>>
    /\ n_polls = 0
    /\ n_over = 0
    /\ n_nonzero = 0
    /\ n_recover = 0
    /\ last = "none"
    /\ job_man = [remaining |-> {}, current_id |-> -1, job_complete |-> FALSE, completed |-> 0]
    /\ dockers = <<>>
    /\ trials = <<>>
    /\ outputs = <<>>

Init ==
    /\ args \in [input_file : InputFiles, n_decoys : DecoyValues, n_steps : StepValues,
                 slurm : BOOLEAN, pre_filter : PreFilterArgs]
    /\ InitRest

----------------------------------------------------------------------------
(* __main__ *)

\* validation that reports the error but lets the script go on
Validate_no_exit ==
    /\ pc = "main"
    /\ exit_msg' = validate_arguments(args)
    /\ pc' = "validated"
    /\ UNCHANGED <<args, pre_filter, queue>>
    /\ UNCHANGED slurm_vars
    /\ UNCHANGED serial_vars

\* args = parser.parse_args(); validate_arguments(args)
Validate ==
    /\ pc = "main"
    /\ exit_msg' = validate_arguments(args)
    /\ pc' = IF validate_arguments(args) = "" THEN "validated" ELSE "exited"
    /\ UNCHANGED <<args, pre_filter, queue>>
    /\ UNCHANGED slurm_vars
    /\ UNCHANGED serial_vars

\* score_function = get_fa_scorefxn(); pre_filter = load_pre_filter(...); branch
Deploy ==
    /\ pc = "validated"
    /\ pre_filter' = load_pre_filter(args.pre_filter)
    /\ pc' = IF args.slurm THEN "slurm_for" ELSE "serial_init"
    /\ UNCHANGED <<args, exit_msg, queue>>
    /\ UNCHANGED slurm_vars
    /\ UNCHANGED serial_vars

----------------------------------------------------------------------------
(* deploy_decoys_on_slurm *)

SlurmPcs == {"slurm_for", "slurm_poll", "slurm_submit", "slurm_recover"}

\* a loop over range(n - 1)
InRange_one_short(i, n) == 0 <= i /\ i < n - 1

\* range(n) still has the element i
InRange(i, n) == 0 <= i /\ i < n

\* for decoy_index in range(n_decoys): output_name = ...; dump_sbatch_script(...)
SlurmGenerate ==
    /\ pc = "slurm_for"
    /\ InRange(decoy_index, args.n_decoys)
    /\ LET output_name == OutputName(DropLast4(args.input_file), decoy_index)
       IN  /\ scripts' = Append(scripts,
                  ScriptOf(output_name, args.input_file, args.n_steps, pre_filter))
           /\ filter_files' = filter_files \o FilterFilesOf(output_name, pre_filter)
    /\ last' = "script"
    /\ pc' = "slurm_poll"
    /\ UNCHANGED <<args, exit_msg, pre_filter, decoy_index, n_jobs_on_slurm_queue,
                   queue, submitted, n_polls, n_over, n_nonzero, n_recover>>
    /\ UNCHANGED serial_vars

\* range(n_decoys) is exhausted: the function returns and the script ends
SlurmExit ==
    /\ pc = "slurm_for"
    /\ ~InRange(decoy_index, args.n_decoys)
    /\ pc' = "done"
    /\ UNCHANGED <<args, exit_msg, pre_filter, queue>>
    /\ UNCHANGED slurm_vars
    /\ UNCHANGED serial_vars

\* the poll with the ceiling taken one too high
Poll_ceiling_plus_one ==
    /\ pc = "slurm_poll"
    /\ (queue > max_slurm_jobs) => (n_over < MaxOverPolls)
    /\ n_jobs_on_slurm_queue' = queue
    /\ n_polls' = n_polls + 1
    /\ n_over' = IF queue > max_slurm_jobs THEN n_over + 1 ELSE n_over
    /\ n_nonzero' = IF queue /= 0 THEN n_nonzero + 1 ELSE n_nonzero
    /\ last' = "poll"
    /\ pc' = IF queue <= max_slurm_jobs + 1 THEN "slurm_submit" ELSE "slurm_recover"
    /\ UNCHANGED <<args, exit_msg, pre_filter, decoy_index, scripts, filter_files,
                   queue, submitted, n_recover>>
    /\ UNCHANGED serial_vars

\* n_jobs_on_slurm_queue = get_number_of_jobs_in_slurm_queue(user); if ... <= ...
\* (polls that find the queue full are counted up to MaxOverPolls)
Poll ==
    /\ pc = "slurm_poll"
    /\ (queue > max_slurm_jobs) => (n_over < MaxOverPolls)
    /\ n_jobs_on_slurm_queue' = queue
    /\ n_polls' = n_polls + 1
    /\ n_over' = IF queue > max_slurm_jobs THEN n_over + 1 ELSE n_over
    /\ n_nonzero' = IF queue /= 0 THEN n_nonzero + 1 ELSE n_nonzero
    /\ last' = "poll"
    /\ pc' = IF queue <= max_slurm_jobs THEN "slurm_submit" ELSE "slurm_recover"
    /\ UNCHANGED <<args, exit_msg, pre_filter, decoy_index, scripts, filter_files,
                   queue, submitted, n_recover>>
    /\ UNCHANGED serial_vars

\* os.system("sbatch <output_name>.sh"); break  -- and on to the next decoy_index
Submit ==
    /\ pc = "slurm_submit"
    /\ submitted' = Append(submitted, OutputName(DropLast4(args.input_file), decoy_index))
    /\ queue' = queue + 1
    /\ decoy_index' = decoy_index + 1
    /\ last' = "submit"
    /\ pc' = "slurm_for"
    /\ UNCHANGED <<args, exit_msg, pre_filter, scripts, filter_files,
                   n_jobs_on_slurm_queue, n_polls, n_over, n_nonzero, n_recover>>
    /\ UNCHANGED serial_vars

\* the recovery check followed by giving the trial up
Recover_gives_up ==
    /\ pc = "slurm_recover"
    /\ n_recover' = n_recover + 1
    /\ decoy_index' = decoy_index + 1
    /\ last' = "recover"
    /\ pc' = "slurm_for"
    /\ UNCHANGED <<args, exit_msg, pre_filter, scripts, filter_files,
                   n_jobs_on_slurm_queue, queue, submitted, n_polls, n_over, n_nonzero>>
    /\ UNCHANGED serial_vars

\* the recovery check inside a loop that also rewrites the script
Recover_regenerates ==
    /\ pc = "slurm_recover"
    /\ n_recover' = n_recover + 1
    /\ LET output_name == OutputName(DropLast4(args.input_file), decoy_index)
       IN  /\ scripts' = Append(scripts,
                  ScriptOf(output_name, args.input_file, args.n_steps, pre_filter))
           /\ filter_files' = filter_files \o FilterFilesOf(output_name, pre_filter)
    /\ last' = "recover"
    /\ pc' = "slurm_poll"
    /\ UNCHANGED <<args, exit_msg, pre_filter, decoy_index,
                   n_jobs_on_slurm_queue, queue, submitted, n_polls, n_over, n_nonzero>>
    /\ UNCHANGED serial_vars

\* verify_launch_failed_requeued_held(user); back to the top of "while True"
Recover ==
    /\ pc = "slurm_recover"
    /\ n_recover' = n_recover + 1
    /\ last' = "recover"
    /\ pc' = "slurm_poll"
    /\ UNCHANGED <<args, exit_msg, pre_filter, decoy_index, scripts, filter_files,
                   n_jobs_on_slurm_queue, queue, submitted, n_polls, n_over, n_nonzero>>
    /\ UNCHANGED serial_vars

----------------------------------------------------------------------------
(* The SLURM queue of the user, outside this process *)

\* some of the user's jobs finish
JobFinishes ==
    /\ pc \in SlurmPcs
    /\ \E q \in QueueLevels : q < queue /\ queue' = q
    /\ UNCHANGED <<args, pc, exit_msg, pre_filter>>
    /\ UNCHANGED slurm_vars
    /\ UNCHANGED serial_vars

\* the user submits jobs from elsewhere
ExternalSubmit ==
    /\ pc \in SlurmPcs
    /\ \E q \in QueueLevels : q > queue /\ queue' = q
    /\ UNCHANGED <<args, pc, exit_msg, pre_filter>>
    /\ UNCHANGED slurm_vars
    /\ UNCHANGED serial_vars

----------------------------------------------------------------------------
(* deploy_decoys_on_pyjobdistributor *)

\* PyJobDistributor(output_prefix, n_decoys, score_function): trials 0..n_decoys-1
\* are pending, the first one is started, and the job is complete if none is.
PyJobDistributor(nstruct) ==
    [ remaining    |-> 0 .. (nstruct - 1),
      current_id   |-> IF nstruct > 0 THEN 0 ELSE -1,
      job_complete |-> ~(nstruct > 0),
      completed    |-> 0 ]

\* job_man.output_decoy(p): the current trial is complete, the next one starts
output_decoy(jm) ==
    LET rest == jm.remaining \ {jm.current_id}
    IN  [ remaining    |-> rest,
          current_id   |-> IF rest = {} THEN jm.current_id
                           ELSE CHOOSE i \in rest : \A j \in rest : i <= j,
          job_complete |-> rest = {},
          completed    |-> jm.completed + 1 ]

SerialInit ==
    /\ pc = "serial_init"
    /\ job_man' = PyJobDistributor(args.n_decoys)
    /\ pc' = "serial_while"
    /\ UNCHANGED <<args, exit_msg, pre_filter, queue, dockers, trials, outputs>>
    /\ UNCHANGED slurm_vars

\* a loop that also ends after its first pass
SerialExit_after_first_pass ==
    /\ pc = "serial_while"
    /\ job_man.job_complete \/ Len(outputs) >= 1
    /\ pc' = "done"
    /\ UNCHANGED <<args, exit_msg, pre_filter, queue>>
    /\ UNCHANGED slurm_vars
    /\ UNCHANGED serial_vars

\* while not job_man.job_complete: -- the condition is false
SerialExit ==
    /\ pc = "serial_while"
    /\ job_man.job_complete
    /\ pc' = "done"
    /\ UNCHANGED <<args, exit_msg, pre_filter, queue>>
    /\ UNCHANGED slurm_vars
    /\ UNCHANGED serial_vars

\* the condition is true: output_name = ...; docker = PASSO(...)
SerialDocker ==
    /\ pc = "serial_while"
    /\ ~job_man.job_complete
    /\ dockers' = Append(dockers, OutputName(DropLast4(args.input_file), job_man.current_id))
    /\ pc' = "serial_run"
    /\ UNCHANGED <<args, exit_msg, pre_filter, queue, job_man, trials, outputs>>
    /\ UNCHANGED slurm_vars

\* p = single_dock_decoy(input_file, output_name, n_steps, docker)
SerialRun ==
    /\ pc = "serial_run"
    /\ trials' = Append(trials, [id |-> job_man.current_id, docker |-> Len(dockers)])
    /\ pc' = "serial_output"
    /\ UNCHANGED <<args, exit_msg, pre_filter, queue, job_man, dockers, outputs>>
    /\ UNCHANGED slurm_vars

\* job_man.output_decoy(p)
SerialOutput ==
    /\ pc = "serial_output"
    /\ outputs' = Append(outputs, job_man.current_id)
    /\ job_man' = output_decoy(job_man)
    /\ pc' = "serial_while"
    /\ UNCHANGED <<args, exit_msg, pre_filter, queue, dockers, trials>>
    /\ UNCHANGED slurm_vars

----------------------------------------------------------------------------
(* Specifications *)

Next ==
    \/ Validate
    \/ Deploy
    \/ SlurmGenerate
    \/ SlurmExit
    \/ Poll
    \/ Submit
    \/ Recover
    \/ JobFinishes
    \/ ExternalSubmit
    \/ SerialInit
    \/ SerialExit
    \/ SerialDocker
    \/ SerialRun
    \/ SerialOutput

Spec == Init /\ [][Next]_vars

\* the queue changes only by this process's submissions and by jobs finishing
NextOwn ==
    \/ Validate
    \/ Deploy
    \/ SlurmGenerate
    \/ SlurmExit
    \/ Poll
    \/ Submit
    \/ Recover
    \/ JobFinishes
    \/ SerialInit
    \/ SerialExit
    \/ SerialDocker
    \/ SerialRun
    \/ SerialOutput

SpecOwn == Init /\ [][NextOwn]_vars

\* the steps of the script itself: one synchronous thread that never pauses
Proc ==
    \/ Validate
    \/ Deploy
    \/ SlurmGenerate
    \/ SlurmExit
    \/ Poll
    \/ Submit
    \/ Recover
    \/ SerialInit
    \/ SerialExit
    \/ SerialDocker
    \/ SerialRun
    \/ SerialOutput

\* ... and the user's jobs keep finishing
LiveSpec == Init /\ [][NextOwn]_vars /\ WF_vars(Proc) /\ WF_vars(JobFinishes)

\* validation alone, over every path up to MaxPathLen
InitValidate ==
    /\ args \in [input_file : AllPaths, n_decoys : DecoyValues, n_steps : StepValues,
                 slurm : BOOLEAN, pre_filter : {DEFAULT_pre_filter}]
    /\ InitRest
    /\ queue = 0

SpecValidate == InitValidate /\ [][Validate]_vars

----------------------------------------------------------------------------
(* Properties *)

\* the path is <something>.pdb
EndsInPdb(s) ==
    /\ Len(s) >= 4
    /\ \A i \in 1 .. 4 : s[Len(s) - 4 + i] = PDB[i]

ArgsAcceptable ==
    /\ EndsInPdb(args.input_file)
    /\ args.n_decoys >= 0
    /\ args.n_steps >= 0

\* nothing of either deployment has happened
NoDeployment ==
    /\ scripts = <<>>
    /\ filter_files = <<>>
    /\ n_polls = 0
    /\ n_recover = 0
    /\ submitted = <<>>
    /\ dockers = <<>>
    /\ trials = <<>>
    /\ outputs = <<>>

\* C1: once validate_arguments has run, the script goes on (no exit message)
\* exactly when the path ends in ".pdb", n_decoys >= 0 and n_steps >= 0, and
\* it has exited with an error message in every other case.
C1_ValidationAcceptsExactly ==
    (pc /= "main") =>
        /\ (pc = "validated" /\ exit_msg = "") <=> ArgsAcceptable
        /\ (pc = "exited" /\ exit_msg /= "") <=> ~ArgsAcceptable

C1_Witness ==
    /\ pc = "validated"
    /\ args.n_decoys = 0
    /\ args.n_steps = 0
    /\ Len(args.input_file) = 4

\* C2: a run whose arguments fail validation never gets past validation and
\* leaves no script, poll, submission, recovery check or serial trial behind;
\* and in every run nothing is deployed before validation has run.
C2_ValidationBeforeDeployment ==
    /\ (~ArgsAcceptable) => (pc \in {"main", "exited"} /\ NoDeployment)
    /\ (pc \in {"main", "exited", "validated"}) => NoDeployment

C2_Witness ==
    /\ pc = "exited"
    /\ args.slurm
    /\ args.n_decoys > 0
    /\ ~EndsInPdb(args.input_file)

\* C3: in SLURM mode the scripts written so far are those of trials
\* 0, 1, ..., k-1 in this order, each once, named <output_prefix>_<i>, with
\* k <= N; and when the loop has ended k = N.
C3_ScriptsAreTrialPrefix ==
    /\ \A k \in 1 .. Len(scripts) :
          scripts[k].name = [prefix |-> DropLast4(args.input_file), index |-> k - 1]
    /\ (scripts /= <<>>) => (args.slurm /\ Len(scripts) <= args.n_decoys)
    /\ (pc = "done" /\ args.slurm) => (Len(scripts) = args.n_decoys)

C3_Witness ==
    /\ pc = "done"
    /\ args.slurm
    /\ args.n_decoys = 3
    /\ Len(scripts) = 3

\* a step in which sbatch is called
SubmitStep == Len(submitted') = Len(submitted) + 1

\* a step in which verify_launch_failed_requeued_held is called
RecoverStep == n_recover' = n_recover + 1

\* the inner "while True" loop, before a poll has found room
Waiting == pc \in {"slurm_poll", "slurm_recover"}

\* C4: sbatch of trial i is called only when the last step of the loop was a
\* poll that returned a count <= max_slurm_jobs; and a SLURM run in which every
\* poll returned 0 ends with N scripts, N polls, N submissions and no
\* recovery check.
C4_SubmitOnlyAfterPollBelowCeiling ==
    /\ [][SubmitStep =>
            /\ last = "poll"
            /\ n_jobs_on_slurm_queue <= max_slurm_jobs
            /\ submitted'[Len(submitted')].index = decoy_index]_vars
    /\ []((pc = "done" /\ args.slurm /\ n_nonzero = 0) =>
            /\ Len(scripts) = args.n_decoys
            /\ Len(submitted) = args.n_decoys
            /\ n_polls = args.n_decoys
            /\ n_recover = 0)

C4_Witness ==
    /\ pc = "done"
    /\ args.slurm
    /\ args.n_decoys = 3
    /\ n_nonzero = 0
    /\ Len(scripts) = 3
    /\ Len(submitted) = 3
    /\ n_recover = 0

\* C5: when only this process submits and jobs only finish, the user's jobs
\* outstanding right after a submission, the new job included, are at most
\* max_slurm_jobs.
C5_QueueNeverAboveCeilingAfterSubmit ==
    [][SubmitStep => queue' <= max_slurm_jobs]_vars

\* C6: the trials 0 .. decoy_index-1 are exactly the submitted ones, the loop
\* ends only with all N submitted, and a run in which from some point of the
\* wait for trial i on every poll returns a count above the ceiling stays in
\* the poll/recovery loop of trial i for ever.
C6_NoTrialSkipped ==
    /\ [](args.slurm =>
            /\ Len(submitted) = decoy_index
            /\ \A k \in 1 .. Len(submitted) : submitted[k].index = k - 1
            /\ (pc = "done") => (Len(submitted) = args.n_decoys))
    /\ \A i \in 0 .. MaxDecoys :
          []( ( /\ Waiting
                /\ decoy_index = i
                /\ []((last = "poll") => (n_jobs_on_slurm_queue > max_slurm_jobs)) )
              => [](Waiting /\ decoy_index = i /\ Len(submitted) = i) )

C6_Witness ==
    /\ pc = "slurm_poll"
    /\ decoy_index = 1
    /\ Len(submitted) = 1
    /\ n_recover = 2
    /\ queue > max_slurm_jobs

\* C9: a recovery check is made only right after a poll that returned a count
\* above the ceiling and leads back to the poll; each such poll gets exactly
\* one recovery check; no step of the wait loop writes a script, submits or
\* moves to another trial; each started trial has exactly one script.
C9_WaitStep ==
    /\ [][RecoverStep =>
            /\ last = "poll"
            /\ n_jobs_on_slurm_queue > max_slurm_jobs
            /\ pc' = "slurm_poll"]_vars
    /\ [][(last = "poll" /\ n_jobs_on_slurm_queue <= max_slurm_jobs)
            => n_recover' = n_recover]_vars
    /\ [][Waiting => UNCHANGED <<scripts, filter_files, submitted, decoy_index>>]_vars
    /\ [](n_recover = n_over - (IF pc = "slurm_recover" THEN 1 ELSE 0))
    /\ []((pc = "slurm_recover") <=>
            (last = "poll" /\ n_jobs_on_slurm_queue > max_slurm_jobs))
    /\ [](Len(scripts) = decoy_index + (IF pc \in SlurmPcs \ {"slurm_for"} THEN 1 ELSE 0))
    /\ []((pc = "done") => (n_recover = n_over))

C9_Witness ==
    /\ pc = "done"
    /\ args.slurm
    /\ args.n_decoys = 2
    /\ n_over = 2
    /\ n_recover = 2
    /\ Len(scripts) = 2

\* C7: the serial loop ends exactly when the helper has N completed trials:
\* at the end N are completed, and once N are completed no further pass is
\* started; at the end N PASSO instances were constructed, N trials run and N
\* results handed to the helper; trial k ran on the k-th instance, built for
\* that trial, and each trial 0..N-1 was run once.
C7_SerialLoop ==
    (~args.slurm /\ pc \in {"serial_while", "serial_run", "serial_output", "done"}) =>
        /\ (pc = "done") =>
              /\ job_man.job_complete
              /\ job_man.completed = args.n_decoys
              /\ Len(dockers) = args.n_decoys
              /\ Len(trials) = args.n_decoys
              /\ Len(outputs) = args.n_decoys
        /\ (job_man.completed = args.n_decoys) =>
              (job_man.job_complete /\ pc \in {"serial_while", "done"})
        /\ job_man.completed = Len(outputs)
        /\ Len(dockers) <= args.n_decoys
        /\ Len(trials) = Len(dockers) - (IF pc = "serial_run" THEN 1 ELSE 0)
        /\ Len(outputs) = Len(trials) - (IF pc = "serial_output" THEN 1 ELSE 0)
        /\ \A k \in 1 .. Len(trials) :
              /\ trials[k].docker = k
              /\ trials[k].id = k - 1
              /\ dockers[k].index = trials[k].id
        /\ \A k \in 1 .. Len(outputs) : outputs[k] = trials[k].id

C7_Witness ==
    /\ pc = "done"
    /\ ~args.slurm
    /\ args.n_decoys = 3
    /\ Len(dockers) = 3
    /\ Len(trials) = 3
    /\ job_man.completed = 3

\* C8: every script has its <output_name>_pre_filter.json file and its " -pf"
\* reference exactly when the run was given a pre-filter other than "auto"; a
\* run with the option left at "auto" writes neither.
C8_FilterFileOnlyForNonDefault ==
    /\ \A k \in 1 .. Len(scripts) :
          /\ (scripts[k].pf_ref /= <<>>) <=> (args.pre_filter /= DEFAULT_pre_filter)
          /\ (\E j \in 1 .. Len(filter_files) : filter_files[j].name = scripts[k].name)
                <=> (args.pre_filter /= DEFAULT_pre_filter)
    /\ (args.pre_filter = DEFAULT_pre_filter) => (filter_files = <<>>)

\* C10: the scripts and the submissions are those of trials 0, 1, 2, ... in
\* order, script i before submission i before script i+1; a SLURM run whose
\* queue keeps draining ends, with exactly N submissions; and with N = 0 it
\* ends without any script, poll, recovery check or submission.
C10_SlurmTerminates ==
    /\ [](/\ \A k \in 1 .. Len(scripts) : scripts[k].name.index = k - 1
          /\ \A k \in 1 .. Len(submitted) : submitted[k].index = k - 1
          /\ Len(submitted) <= Len(scripts)
          /\ Len(scripts) <= Len(submitted) + 1)
    /\ [][(Len(scripts') = Len(scripts) + 1) => (Len(submitted) = Len(scripts))]_vars
    /\ [][SubmitStep => (Len(scripts) = Len(submitted) + 1)]_vars
    /\ (pc = "slurm_for" /\ decoy_index = 0) ~>
          (pc = "done" /\ Len(submitted) = args.n_decoys /\ Len(scripts) = args.n_decoys)
    /\ []((pc = "done" /\ args.slurm /\ args.n_decoys = 0) =>
            (scripts = <<>> /\ n_polls = 0 /\ n_recover = 0 /\ submitted = <<>>))

C10_Witness ==
    /\ pc = "done"
    /\ args.slurm
    /\ args.n_decoys = 3
    /\ Len(submitted) = 3
    /\ n_over >= 1

====
